---- MODULE Spec2Model ----
(***************************************************************************)
(* ghweekly: the commit fetcher (fetch_commits_for_repo) and the weekly    *)
(* aggregator (fetch_weekly_commits) of src/src/ghweekly/main.py, with the *)
(* helpers of src/src/ghweekly/utils.py.                                   *)
(*                                                                         *)
(* Time is counted in ticks since a Monday 00:00 (tick 0); a day has       *)
(* TicksPerDay ticks, so a datetime with a time of day is a tick that is   *)
(* not a multiple of TicksPerDay.  Strings are tuples of one-character     *)
(* strings.  The upstream (the forge's REST API) holds, per repository of  *)
(* the list, the pages of commit records that match the query; transport   *)
(* failures, HTTP statuses and unparseable bodies are chosen by the        *)
(* environment at each request.                                            *)
(***************************************************************************)
EXTENDS Integers, Sequences, FiniteSets, TLC

VARIABLES
    mode,          \* the entry point. "weekly": fetch_weekly_commits; "direct":
                   \* fetch_commits_for_repo; "cli": run of cli.py
    argv,          \* run: the date strings ("iso" parses, "bad" does not, "none" is
                   \* absent) and the flag --plot
    exit_code,     \* run: the exit code of the process (-1 while it runs)
    printed,       \* run: print(df) has happened
    username,      \* argument username
    repos,         \* argument repos (list of repository references)
    start,         \* argument start (tick)
    end,           \* argument end (tick)
    authorized,    \* "Authorization" in headers
    max_retries,   \* argument max_retries of fetch_commits_for_repo
    upstream,      \* per list position: the pages of records the forge holds
    pc,            \* position of the single thread of control
    error,         \* the exception that left the entry point ("none" if none)
    error_status,  \* status_code of the APIError that left a direct call (0 if none)
    weeks,         \* the weekly grid (pd.date_range)
    df,            \* the table: one sequence of cells per column position
    columns,       \* the column names of df, by position
    i,             \* position in repos of the repository being processed
    outcome,       \* per list position: how its fetch ended
    fetched,       \* per list position: the list its fetch returned
    dropped,       \* per list position: the dates gathered when its fetch raised
    page,          \* fetch_commits_for_repo: page
    attempt,       \* fetch_commits_for_repo: attempt of the retry loop
    commit_dates,  \* fetch_commits_for_repo: commit_dates
    nreq,          \* number of requests.get calls of the run
    pageReqs,      \* requests.get calls for the current page
    pageSleeps,    \* time.sleep(retry_delay) calls for the current page
    rateSleeps,    \* time.sleep(0.1) calls of the current fetch
    pagesAsked,    \* distinct page numbers requested by the current fetch
    status,        \* resp.status_code; 0 when resp is None
    data,          \* what resp.json() last gave: "none", "unparseable", "not_a_list", "list"
    lastEffect,    \* the last external effect: "none", "request", "retry_sleep", "rate_sleep"
    run,           \* 1: the first call of the entry point; 2: the same call made again
    answers,       \* what the upstream answered to each request of the first call
    params,        \* the params of the last requests.get of the current fetch
    handlers,      \* number of handlers of the logger 'ghweekly'
    level,         \* level of the logger 'ghweekly' (0 is NOTSET)
    log_calls,     \* the level names setup_logging has been called with
    log_error,     \* the exception the last call of setup_logging raised ("none" if none)
    first_call     \* how the first call ended, and the table it returned

vars == <<params, handlers, level, log_calls, log_error, argv, exit_code, printed, mode, username, repos, start, end, authorized, max_retries, upstream,
          pc, error, error_status, pagesAsked, weeks, df, columns, i, outcome, fetched, dropped, page, attempt,
          commit_dates, nreq, pageReqs, pageSleeps, rateSleeps, status, data, lastEffect, run, answers, first_call>>

(***************************************************************************)
(* Bounds of the model                                                     *)
(***************************************************************************)
TicksPerDay == 2
\* the most calls of setup_logging in a run of the logging specification
MaxLogCalls == 3
\* the longest window of the window family, in days beyond one week
ExtraSpanDays == 2

(***************************************************************************)
(* Program constants                                                       *)
(***************************************************************************)
DaysPerWeek == 7
\* a mutant of max_pages: the loop reads one page more
max_pages_OneMore == 100 + 1
max_pages == 100
DefaultMaxRetries == 3

Week == DaysPerWeek * TicksPerDay
Day(d) == d * TicksPerDay

(***************************************************************************)
(* Sequence helpers                                                        *)
(***************************************************************************)
Range(s) == {s[k] : k \in DOMAIN s}

Min(S) == CHOOSE x \in S : \A y \in S : x <= y
Max(S) == CHOOSE x \in S : \A y \in S : x >= y

(***************************************************************************)
(* String helpers (str.split, str.strip)                                   *)
(***************************************************************************)
\* s.split(sep) for a one-character separator
RECURSIVE Split(_, _)
Split(s, sep) ==
    IF \A k \in DOMAIN s : s[k] # sep
    THEN <<s>>
    ELSE LET k == Min({j \in DOMAIN s : s[j] = sep})
         IN  <<SubSeq(s, 1, k - 1)>> \o Split(SubSeq(s, k + 1, Len(s)), sep)

\* s.strip()
RECURSIVE Strip(_)
Strip(s) ==
    IF s = <<>> THEN s
    ELSE IF Head(s) = " " THEN Strip(Tail(s))
    ELSE IF s[Len(s)] = " " THEN Strip(SubSeq(s, 1, Len(s) - 1))
    ELSE s

(***************************************************************************)
(* utils.py                                                                *)
(***************************************************************************)
\* the entry None of a list of references
None == <<"None">>

\* a mutant of RepoInvalid: the sides are not compared with their stripped form
RepoInvalid_PaddingAllowed(repo) ==
    \/ repo = <<>> \/ repo = None
    \/ "/" \notin Range(repo)
    \/ LET parts == Split(repo, "/")
       IN  \/ Len(parts) # 2
           \/ ~ (\A k \in DOMAIN parts : Strip(parts[k]) # <<>>)

\* the test validate_repo_format applies to one entry (TRUE: it raises)
RepoInvalid(repo) ==
    \/ repo = <<>> \/ repo = None
    \/ "/" \notin Range(repo)
    \/ LET parts == Split(repo, "/")
       IN  \/ Len(parts) # 2
           \/ ~ (\A k \in DOMAIN parts : Strip(parts[k]) # <<>>)
           \/ \E k \in DOMAIN parts : parts[k] # Strip(parts[k])

\* a mutant of validate_repo_format: a list without entries is rejected
validate_repo_format_RejectsEmpty(rs) ==
    rs # <<>> /\ \A k \in DOMAIN rs : ~ RepoInvalid(rs[k])

\* a mutant of validate_repo_format: only the separator is looked for
validate_repo_format_SeparatorOnly(rs) ==
    \A k \in DOMAIN rs : "/" \in Range(rs[k])

\* TRUE when validate_repo_format(rs) returns, FALSE when it raises ValidationError
validate_repo_format(rs) ==
    \A k \in DOMAIN rs : ~ RepoInvalid(rs[k])

get_repo_short_name(repo) ==
    LET parts == Split(repo, "/") IN parts[Len(parts)]

(***************************************************************************)
(* datetime / pandas helpers used by fetch_weekly_commits                  *)
(***************************************************************************)
\* datetime.weekday(): Monday is 0
weekday(t) == (t \div TicksPerDay) % DaysPerWeek

\* pd.date_range(start=first, end=last, freq=step)
date_range(first, last, step) ==
    IF first > last THEN <<>>
    ELSE [k \in 1 .. ((last - first) \div step) + 1 |-> first + (k - 1) * step]

\* the Monday 00:00 on or before t (the left edge of the W-MON bin of t)
WeekFloor(t) == (t \div Week) * Week

\* s.resample("W-MON", label="left", closed="left").sum() of a Series of ones
\* indexed by dates: one row per Monday from the bin of the earliest date to the
\* bin of the latest, holding the number of dates in [Monday, Monday + 7 days)
resample_sum(dates) ==
    LET lo == WeekFloor(Min(Range(dates)))
        hi == WeekFloor(Max(Range(dates)))
        labels == {m \in lo .. hi : m % Week = 0}
    IN  [m \in labels |->
            Cardinality({k \in DOMAIN dates : m <= dates[k] /\ dates[k] < m + Week})]

\* weekly.reindex(index, fill_value=0)
reindex(weekly, index) ==
    [k \in DOMAIN index |->
        IF index[k] \in DOMAIN weekly THEN weekly[index[k]] ELSE 0]

\* a mutant of SetColumn: the series is stored under a key the table does not
\* have yet (the full reference instead of the short name), so a column is added
SetColumn_NewKey(table, names, name, series) == Append(table, series)

\* a mutant of SetColumn: the series is written to every column of the table
SetColumn_EveryColumn(table, names, name, series) ==
    [c \in DOMAIN table |-> series]

\* df[name] = series: every column carrying that name is replaced
SetColumn(table, names, name, series) ==
    [c \in DOMAIN table |-> IF names[c] = name THEN series ELSE table[c]]

(***************************************************************************)
(* fetch_weekly_commits: validation and the weekly grid                    *)
(***************************************************************************)
UsernameEmpty(u) == u = <<>> \/ Strip(u) = <<>>

\* a mutant of InputsValid: the date range is not looked at
InputsValid_NoDateCheck(u, rs, s, e) ==
    /\ ~ UsernameEmpty(u)
    /\ validate_repo_format(rs)

\* TRUE when the three checks of fetch_weekly_commits pass
InputsValid(u, rs, s, e) ==
    /\ ~ UsernameEmpty(u)
    /\ ~ (e < s)
    /\ validate_repo_format(rs)

\* offset_start / offset_end, in days
MondayOffset(t) == (0 - weekday(t)) % DaysPerWeek

first_monday(s) == s + Day(MondayOffset(s))
last_monday(e) == e + Day(MondayOffset(e))

\* weeks = pd.date_range(start=first_monday, end=last_monday, freq="7D")
WeeklyGrid(s, e) == date_range(first_monday(s), last_monday(e), Week)

\* df = pd.DataFrame(0, index=weeks, columns=repo_short_names)
InitialTable(grid, rs) ==
    [c \in DOMAIN rs |-> [k \in DOMAIN grid |-> 0]]

(***************************************************************************)
(* The inputs of a run and the upstream's data                             *)
(***************************************************************************)
Ok(t) == [kind |-> "ok", date |-> t]
\* a record without one of the keys commit / author / date (KeyError)
NoKey == [kind |-> "nokey", date |-> 0]
\* a record whose date string datetime.fromisoformat rejects (ValueError)
BadDate == [kind |-> "baddate", date |-> 0]
\* a record whose commit, author or date field is null or not an object:
\* subscripting it raises TypeError (AttributeError for a null date)
NullField == [kind |-> "null", date |-> 0]
\* a well-formed record with its stable identifier, the key "sha" of the
\* commit object, which the loop over the records never reads
Commit(h, t) == [kind |-> "ok", date |-> t, sha |-> h]
\* a well-formed record whose date string carries a UTC offset: date is the
\* wall-clock reading of the string, utc_offset the offset (east positive), so
\* the instant is date - utc_offset; a record without the field ends in "Z"
OkAt(t, off) == [kind |-> "ok", date |-> t, utc_offset |-> off]

User == <<"u">>
RepoAX == <<"a", "/", "x">>
RepoAY == <<"a", "/", "y">>
RepoBX == <<"b", "/", "x">>
RepoDoubleSep == <<"a", "/", "/", "x">>
RepoNoSep == <<"a">>

\* nothing matches the query
HistNone == <<>>
\* two pages: three commits of the week of Monday 2 * Week
HistTwoPages == << <<Ok(2 * Week), Ok(2 * Week)>>, <<Ok(3 * Week - 1)>> >>
\* one page: a malformed record between two commits of different weeks
HistMixed == << <<Ok(Week + TicksPerDay + 1), NoKey, Ok(2 * Week + 1)>> >>
\* one page: commits at Monday 00:00 of two weeks, the later one first
HistMondays == << <<Ok(3 * Week), BadDate, Ok(Week)>> >>
\* one page holding one commit
HistOne == << <<Ok(2 * Week + TicksPerDay)>> >>

\* three pages: a malformed record before a commit, a page of one malformed
\* record, and a page of one commit
HistBadThenGood == << <<NoKey, Ok(Week + 1)>>, <<BadDate>>, <<Ok(2 * Week)>> >>

\* two pages: a commit, then a commit followed by a record with a null field
HistNull == << <<Ok(2 * Week)>>, <<Ok(2 * Week + 1), NullField>> >>

\* two pages: two commits, then the first of them once more (the forge lists
\* it a second time, as it does for a commit matching two role filters)
HistRepeated ==
    << <<Commit("s1", 2 * Week), Commit("s2", 2 * Week + 1)>>, <<Commit("s1", 2 * Week)>> >>

\* one page: the same instant, the last tick of a week, once written with an
\* offset of one tick east of UTC and once written in UTC
HistOffsets == << <<OkAt(2 * Week, 1), Ok(2 * Week - 1)>> >>

\* a forge that never returns an empty page: one commit on every page, for
\* more pages than the fetch may read
HistEndless == [p \in 1 .. (max_pages + 1) |-> <<Ok(2 * Week)>>]

Input(m, u, rs, s, e, auth, mr, up) ==
    [mode |-> m, username |-> u, repos |-> rs, start |-> s, end |-> e,
     authorized |-> auth, max_retries |-> mr, upstream |-> up]

\* one repository, every weekday and time of day of start, every end from
\* start - 1 tick to start + one week + ExtraSpanDays
WindowInputs ==
    UNION { { Input("weekly", User, <<RepoAX>>, s, e, FALSE, DefaultMaxRetries, <<h>>) :
                e \in (s - 1) .. (s + Week + Day(ExtraSpanDays)),
                h \in {HistTwoPages, HistMixed, HistMondays} } :
            s \in Week .. (2 * Week - 1) }

\* references with an empty side, a side of whitespace, a padded side, the
\* empty string, and a reference with whitespace inside a side
RepoEmptyOwner == <<"/", "x">>
RepoEmptyName == <<"a", "/">>
RepoBlankName == <<"a", "/", " ">>
RepoPaddedName == <<"a", "/", "x", " ">>
RepoPaddedOwner == <<" ", "a", "/", "x">>
RepoEmptyString == <<>>
RepoInnerSpace == <<"a", "/", "x", " ", "y">>
MalformedRefs ==
    {RepoEmptyOwner, RepoEmptyName, RepoBlankName, RepoPaddedName, RepoPaddedOwner,
     RepoEmptyString, None}

RepoLists ==
    LET refs == {RepoAX, RepoAY, RepoBX, RepoDoubleSep, RepoNoSep}
    IN  {<<>>} \cup {<<r>> : r \in refs} \cup {<<r, q>> : r \in refs, q \in refs}
            \cup {<<r>> : r \in MalformedRefs \cup {RepoInnerSpace}}
            \cup {<<RepoAX, r>> : r \in MalformedRefs}
            \cup {<<r, RepoAX>> : r \in MalformedRefs}

\* every list of at most two references, every kind of username, a valid and an
\* inverted window
RepoInputs ==
    { Input("weekly", u, rs, w[1], w[2], FALSE, DefaultMaxRetries,
            [k \in DOMAIN rs |-> IF k = 1 THEN h ELSE HistOne]) :
        u \in {<<>>, <<" ">>, User},
        rs \in RepoLists,
        w \in {<<Week, 3 * Week>>, <<Week + Day(2), Week + Day(1)>>},
        h \in {HistNone, HistTwoPages} }

\* Scenario A: tick 0 is Monday 2024-12-30; the window is 2025-01-01 to
\* 2025-01-31; the commits are dated 2025-01-02, 2025-01-02 and 2025-01-10
ScenarioA ==
    Input("weekly", User, <<RepoAX>>, Day(2), Day(32), FALSE, DefaultMaxRetries,
          << << <<Ok(Day(3)), Ok(Day(3)), Ok(Day(11))>> >> >>)

\* direct calls of fetch_commits_for_repo, for every max_retries up to the default
DirectInputs ==
    { Input("direct", User, <<RepoAX>>, Week, 3 * Week, auth, mr, <<h>>) :
        auth \in BOOLEAN,
        mr \in 0 .. DefaultMaxRetries,
        h \in {HistNone, HistTwoPages, HistMixed, HistBadThenGood, HistNull} }

\* direct calls against the forge that never returns an empty page
EndlessInputs ==
    { Input("direct", User, <<RepoAX>>, Week, 3 * Week, c[1], c[2], <<HistEndless>>) :
        c \in {<<TRUE, 0>>, <<FALSE, 0>>, <<FALSE, 1>>} }

\* two repositories, the first with a record that has a null field
NullFieldInput ==
    Input("weekly", User, <<RepoAX, RepoAY>>, Week, 3 * Week, FALSE, DefaultMaxRetries,
          <<HistNull, HistOne>>)

\* one repository whose forge lists a commit twice
RepeatedInput ==
    Input("weekly", User, <<RepoAX>>, Week, 3 * Week, TRUE, DefaultMaxRetries,
          <<HistRepeated>>)

\* runs of the command line: an empty and a non-empty username, lists with
\* distinct and with shared short names and a malformed reference, a valid and
\* an inverted window, with and without --token
CliInputs ==
    { Input("cli", u, rs, w[1], w[2], auth, DefaultMaxRetries,
            [k \in DOMAIN rs |-> HistOne]) :
        u \in {<<>>, User},
        rs \in {<<RepoAX, RepoAY>>, <<RepoAX, RepoBX>>, <<RepoNoSep>>},
        w \in {<<Week, 3 * Week>>, <<Week + Day(2), Week + Day(1)>>},
        auth \in BOOLEAN }

\* --start and --end as strings, and --plot; with --end absent end is
\* datetime.now()
CliArgs == [start : {"iso", "bad"}, end : {"iso", "bad", "none"}, plot : BOOLEAN]

\* the entry point is not run
NoArgs == [start |-> "iso", end |-> "iso", plot |-> FALSE]

\* a direct call against a forge that reports a date with an offset
OffsetInput ==
    Input("direct", User, <<RepoAX>>, Week, 3 * Week, TRUE, 0, <<HistOffsets>>)

\* the calls that are made a second time with the same arguments, against an
\* upstream that answers every request as it did the first time
RerunInputs ==
    { Input("weekly", User, <<RepoAX, RepoBX>>, Week, 3 * Week, FALSE, DefaultMaxRetries,
            <<HistNone, HistOne>>),
      Input("weekly", User, <<RepoAX>>, Week + 1, 2 * Week + 1, FALSE, DefaultMaxRetries,
            <<HistMixed>>) }

\* how a call ended: returned or raised, the exception, and the table
Ended(how, exc, grid, names, table) ==
    [pc |-> how, error |-> exc, weeks |-> grid, columns |-> names, df |-> table]

Inputs ==
    WindowInputs \cup RepoInputs \cup {ScenarioA} \cup DirectInputs \cup EndlessInputs
        \cup {NullFieldInput, RepeatedInput, OffsetInput} \cup CliInputs

\* no request has been sent by the current fetch
NoParams == [author |-> <<>>, since |-> 0, until |-> 0, per_page |-> 0, page |-> 0]

\* a mutant of Params: the page number sent is always 1
Params_AlwaysFirstPage(p) ==
    [author |-> username, since |-> start, until |-> end, per_page |-> 100, page |-> 1]

\* params={"author": username, "since": start.isoformat() + "Z",
\*         "until": end.isoformat() + "Z", "per_page": 100, "page": page}
Params(p) ==
    [author |-> username, since |-> start, until |-> end, per_page |-> 100, page |-> p]

\* the state at the call of the entry point with the arguments x; the logger
\* 'ghweekly' is as logging.getLogger creates it
Start(x) ==
        /\ handlers = 0
        /\ params = NoParams
        /\ level = 0
        /\ log_calls = <<>>
        /\ log_error = "none"
        /\ mode = x.mode
        /\ username = x.username
        /\ repos = x.repos
        /\ start = x.start
        /\ end = x.end
        /\ authorized = x.authorized
        /\ max_retries = x.max_retries
        /\ upstream = x.upstream
        /\ pc = "call"
        /\ error = "none"
        /\ error_status = 0
        /\ pagesAsked = 0
        /\ weeks = <<>>
        /\ df = <<>>
        /\ columns = <<>>
        /\ i = 1
        /\ outcome = [k \in DOMAIN x.repos |-> "PENDING"]
        /\ fetched = [k \in DOMAIN x.repos |-> <<>>]
        /\ dropped = [k \in DOMAIN x.repos |-> <<>>]
        /\ page = 1
        /\ attempt = 0
        /\ commit_dates = <<>>
        /\ nreq = 0
        /\ pageReqs = 0
        /\ pageSleeps = 0
        /\ rateSleeps = 0
        /\ status = 0
        /\ data = "none"
        /\ lastEffect = "none"
        /\ run = 1
        /\ argv \in (IF x.mode = "cli" THEN CliArgs ELSE {NoArgs})
        /\ exit_code = -1
        /\ printed = FALSE
        /\ answers = <<>>
        /\ first_call = Ended("call", "none", <<>>, <<>>, <<>>)

Init == \E x \in Inputs : Start(x)

inputVars == <<mode, argv, username, repos, start, end, authorized, max_retries, upstream>>
tableVars == <<weeks, df, columns>>
resultVars == <<fetched, dropped>>
fetchVars == <<page, attempt, commit_dates>>
effectVars == <<nreq, pageReqs, pageSleeps, rateSleeps, status, data, lastEffect, pagesAsked,
                answers, params>>
callVars == <<run, first_call>>
logVars == <<handlers, level, log_calls, log_error>>
cliVars == <<exit_code, printed>>

(***************************************************************************)
(* fetch_commits_for_repo                                                  *)
(***************************************************************************)
\* the body the forge returns for page p of the repository being fetched
Body(p) == IF p <= Len(upstream[i]) THEN upstream[i][p] ELSE <<>>

\* a mutant of ParsePage: the first malformed record ends the loop
RECURSIVE ParsePage_StopsAtMalformed(_)
ParsePage_StopsAtMalformed(body) ==
    IF body = <<>> \/ Head(body).kind # "ok" THEN <<>>
    ELSE <<Head(body).date>> \o ParsePage_StopsAtMalformed(Tail(body))

\* the loop over the records of one page: the dates of the well-formed records
\* (fromisoformat(...).replace(tzinfo=None) keeps the wall-clock reading of the
\* string and drops its offset)
RECURSIVE ParsePage(_)
ParsePage(body) ==
    IF body = <<>> THEN <<>>
    ELSE IF Head(body).kind = "ok"
         THEN <<Head(body).date>> \o ParsePage(Tail(body))
         ELSE ParsePage(Tail(body))

\* the statuses the forge answers with, besides 200
Statuses == {200, 401, 403, 404, 500}

\* a mutant of BenignStatuses: 403 is not in it
BenignStatuses_Only404 == {404}

\* the statuses that end the pagination without an exception
BenignStatuses == {403, 404}

\* the statuses that raise APIError
HardStatuses == Statuses \ ({200} \cup BenignStatuses)

\* a mutant of RetriesLeft: one attempt fewer (range(max_retries))
RetriesLeft_OneFewer == attempt + 1 < max_retries

\* attempt != max_retries in the handler of RequestException
RetriesLeft == attempt < max_retries

\* a mutant of BeginFetch: commit_dates outlives the call (a list shared
\* between calls), so a fetch starts from the dates of the one before
BeginFetch_KeepsDates ==
    /\ outcome' = [outcome EXCEPT ![i] = "FETCHING"]
    /\ commit_dates' = commit_dates
    /\ page' = 1
    /\ attempt' = 0
    /\ pageReqs' = 0
    /\ pageSleeps' = 0
    /\ rateSleeps' = 0
    /\ pagesAsked' = 0
    /\ status' = 0
    /\ data' = "none"
    /\ params' = NoParams
    /\ pc' = "request"

\* commit_dates = [], page = 1, and the first pass of the while loop
BeginFetch ==
    /\ outcome' = [outcome EXCEPT ![i] = "FETCHING"]
    /\ commit_dates' = <<>>
    /\ page' = 1
    /\ attempt' = 0
    /\ pageReqs' = 0
    /\ pageSleeps' = 0
    /\ rateSleeps' = 0
    /\ pagesAsked' = 0
    /\ status' = 0
    /\ data' = "none"
    /\ params' = NoParams
    /\ pc' = "request"

\* the call is one of those made twice
Traced ==
    Input(mode, username, repos, start, end, authorized, max_retries, upstream) \in RerunInputs

\* the upstream's answer to the request: in the first call it is noted, in the
\* second call the upstream answers request n as it answered it the first time
Answered(st) ==
    IF ~ Traced THEN answers' = answers
    ELSE IF run = 1 THEN answers' = Append(answers, <<st, data'>>)
    ELSE /\ nreq < Len(answers)
         /\ answers[nreq + 1] = <<st, data'>>
         /\ answers' = answers

\* requests.get is called once more
Requested(st) ==
    /\ Answered(st)
    /\ params' = Params(page)
    /\ nreq' = nreq + 1
    /\ pageReqs' = pageReqs + 1
    /\ pagesAsked' = IF pageReqs = 0 THEN pagesAsked + 1 ELSE pagesAsked
    /\ status' = st

\* fetch_commits_for_repo returns dates
Return(dates, how) ==
    /\ fetched' = [fetched EXCEPT ![i] = dates]
    /\ outcome' = [outcome EXCEPT ![i] = how]
    /\ pc' = IF mode = "direct" THEN "returned" ELSE "fetched"
    /\ UNCHANGED <<error, error_status, i, dropped>>

\* a mutant of Raise: the aggregator does not catch the exception
Raise_Uncaught(exc) ==
    /\ outcome' = [outcome EXCEPT ![i] = exc]
    /\ pc' = "raised"
    /\ error' = exc
    /\ error_status' = IF exc = "APIError" THEN status' ELSE error_status
    /\ i' = i
    /\ dropped' = [dropped EXCEPT ![i] = commit_dates]
    /\ UNCHANGED fetched

\* fetch_commits_for_repo raises exc: it leaves a direct call, and the
\* aggregator catches it, logs it and goes on with the next repository
Raise(exc) ==
    /\ outcome' = [outcome EXCEPT ![i] = exc]
    /\ IF mode = "direct"
       THEN /\ pc' = "raised"
            /\ error' = exc
            /\ error_status' = IF exc = "APIError" THEN status' ELSE error_status
            /\ i' = i
       ELSE /\ pc' = "loop"
            /\ error' = error
            /\ error_status' = error_status
            /\ i' = i + 1
    /\ dropped' = [dropped EXCEPT ![i] = commit_dates]
    /\ UNCHANGED fetched

\* an exception that no except clause of the package names leaves
\* fetch_commits_for_repo and, through it, fetch_weekly_commits
RaiseUnexpected(exc, gathered) ==
    /\ outcome' = [outcome EXCEPT ![i] = exc]
    /\ pc' = "raised"
    /\ error' = exc
    /\ dropped' = [dropped EXCEPT ![i] = gathered]
    /\ UNCHANGED <<error_status, i, fetched>>

\* a record of the page raises TypeError in the loop over the records
PageRaises(body) == \E k \in DOMAIN body : body[k].kind = "null"

\* the records of the page that precede the first one that raises
BeforeRaise(body) ==
    SubSeq(body, 1, Min({k \in DOMAIN body : body[k].kind = "null"}) - 1)

\* a mutant of TransportFailureRetry: the retry goes on with the next page
TransportFailureRetry_SkipsPage ==
    /\ pc = "request"
    /\ RetriesLeft
    /\ data' = data
    /\ Requested(status)
    /\ pageSleeps' = pageSleeps + 1
    /\ lastEffect' = "retry_sleep"
    /\ attempt' = attempt + 1
    /\ page' = page + 1
    /\ UNCHANGED <<inputVars, callVars, cliVars, logVars, tableVars, pc, error, error_status, i, outcome, resultVars,
                   commit_dates, rateSleeps>>

\* requests.get raises a RequestException and retries are left
TransportFailureRetry ==
    /\ pc = "request"
    /\ RetriesLeft
    /\ data' = data
    /\ Requested(status)
    /\ pageSleeps' = pageSleeps + 1
    /\ lastEffect' = "retry_sleep"
    /\ attempt' = attempt + 1
    /\ UNCHANGED <<inputVars, callVars, cliVars, logVars, tableVars, pc, error, error_status, i, outcome, resultVars, page,
                   commit_dates, rateSleeps>>

\* requests.get raises a RequestException on the last attempt
TransportFailureRaise ==
    /\ pc = "request"
    /\ ~ RetriesLeft
    /\ data' = data
    /\ Requested(status)
    /\ lastEffect' = "request"
    /\ Raise("NetworkError")
    /\ UNCHANGED <<inputVars, callVars, cliVars, logVars, tableVars, fetchVars, pageSleeps, rateSleeps>>

\* a mutant of RespondBenignStatus: 404 and 403 raise APIError like the others
RespondBenignStatus_Raises ==
    /\ pc = "request"
    /\ data' = data
    /\ \E st \in BenignStatuses : Requested(st)
    /\ lastEffect' = "request"
    /\ Raise("APIError")
    /\ UNCHANGED <<inputVars, callVars, cliVars, logVars, tableVars, fetchVars, pageSleeps, rateSleeps>>

\* status 404 or 403: break
RespondBenignStatus ==
    /\ pc = "request"
    /\ data' = data
    /\ \E st \in BenignStatuses : Requested(st)
    /\ lastEffect' = "request"
    /\ Return(commit_dates, "FAILED_BENIGN")
    /\ UNCHANGED <<inputVars, callVars, cliVars, logVars, tableVars, fetchVars, pageSleeps, rateSleeps>>

\* a mutant of RespondHardStatus: the status is handled like a transport
\* failure, with a delay and another attempt
RespondHardStatus_Retried ==
    /\ pc = "request"
    /\ RetriesLeft
    /\ data' = data
    /\ \E st \in HardStatuses : Requested(st)
    /\ pageSleeps' = pageSleeps + 1
    /\ lastEffect' = "retry_sleep"
    /\ attempt' = attempt + 1
    /\ UNCHANGED <<inputVars, callVars, cliVars, logVars, tableVars, pc, error, error_status, i, outcome,
                   resultVars, page, commit_dates, rateSleeps>>

\* any other status than 200: raise APIError
RespondHardStatus ==
    /\ pc = "request"
    /\ data' = data
    /\ \E st \in HardStatuses : Requested(st)
    /\ lastEffect' = "request"
    /\ Raise("APIError")
    /\ UNCHANGED <<inputVars, callVars, cliVars, logVars, tableVars, fetchVars, pageSleeps, rateSleeps>>

\* a mutant of RespondUnparseable: the ValueError of resp.json() is turned
\* into an APIError
RespondUnparseable_Raises ==
    /\ pc = "request"
    /\ data' = "unparseable"
    /\ Requested(200)
    /\ lastEffect' = "request"
    /\ Raise("APIError")
    /\ UNCHANGED <<inputVars, callVars, cliVars, logVars, tableVars, fetchVars, pageSleeps, rateSleeps>>

\* status 200, resp.json() raises ValueError: break
RespondUnparseable ==
    /\ pc = "request"
    /\ data' = "unparseable"
    /\ Requested(200)
    /\ lastEffect' = "request"
    /\ Return(commit_dates, "FAILED_BENIGN")
    /\ UNCHANGED <<inputVars, callVars, cliVars, logVars, tableVars, fetchVars, pageSleeps, rateSleeps>>

\* status 200, no record: break
RespondEmptyPage ==
    /\ pc = "request"
    /\ Body(page) = <<>>
    /\ data' = "list"
    /\ Requested(200)
    /\ lastEffect' = "request"
    /\ Return(commit_dates, "SUCCEEDED")
    /\ UNCHANGED <<inputVars, callVars, cliVars, logVars, tableVars, fetchVars, pageSleeps, rateSleeps>>

\* a mutant of RateLimited: the delay is taken whatever the headers
RateLimited_Always == TRUE

\* not headers or "Authorization" not in headers
RateLimited == ~ authorized

\* a mutant of RespondPage: the attempts of a page count against the next page
RespondPage_KeepsAttempt ==
    /\ pc = "request"
    /\ Body(page) # <<>>
    /\ ~ PageRaises(Body(page))
    /\ nreq' = nreq + 1
    /\ pagesAsked' = IF pageReqs = 0 THEN pagesAsked + 1 ELSE pagesAsked
    /\ data' = "list"
    /\ Answered(200)
    /\ params' = Params(page)
    /\ commit_dates' = commit_dates \o ParsePage(Body(page))
    /\ page' = page + 1
    /\ IF RateLimited
       THEN rateSleeps' = rateSleeps + 1 /\ lastEffect' = "rate_sleep"
       ELSE rateSleeps' = rateSleeps /\ lastEffect' = "request"
    /\ IF page' <= max_pages
       THEN /\ pc' = "request"
            /\ attempt' = attempt
            /\ pageReqs' = 0
            /\ pageSleeps' = 0
            /\ status' = 0
            /\ UNCHANGED <<error, error_status, i, outcome, resultVars>>
       ELSE /\ Return(commit_dates', "SUCCEEDED")
            /\ pageReqs' = pageReqs + 1
            /\ status' = 200
            /\ UNCHANGED <<attempt, pageSleeps>>
    /\ UNCHANGED <<inputVars, callVars, cliVars, logVars, tableVars>>

\* status 200 with records: parse them, page += 1, the rate-limit delay, and
\* the test of the while loop
RespondPage ==
    /\ pc = "request"
    /\ Body(page) # <<>>
    /\ ~ PageRaises(Body(page))
    /\ nreq' = nreq + 1
    /\ pagesAsked' = IF pageReqs = 0 THEN pagesAsked + 1 ELSE pagesAsked
    /\ data' = "list"
    /\ Answered(200)
    /\ params' = Params(page)
    /\ commit_dates' = commit_dates \o ParsePage(Body(page))
    /\ page' = page + 1
    /\ IF RateLimited
       THEN rateSleeps' = rateSleeps + 1 /\ lastEffect' = "rate_sleep"
       ELSE rateSleeps' = rateSleeps /\ lastEffect' = "request"
    /\ IF page' <= max_pages
       THEN /\ pc' = "request"
            /\ attempt' = 0
            /\ pageReqs' = 0
            /\ pageSleeps' = 0
            /\ status' = 0
            /\ UNCHANGED <<error, error_status, i, outcome, resultVars>>
       ELSE /\ Return(commit_dates', "SUCCEEDED")
            /\ pageReqs' = pageReqs + 1
            /\ status' = 200
            /\ UNCHANGED <<attempt, pageSleeps>>
    /\ UNCHANGED <<inputVars, callVars, cliVars, logVars, tableVars>>

\* status 200 and a list with a record whose commit, author or date field is
\* null or not an object: TypeError, which (KeyError, ValueError) does not catch
RespondNullField ==
    /\ pc = "request"
    /\ Body(page) # <<>>
    /\ PageRaises(Body(page))
    /\ data' = "list"
    /\ Requested(200)
    /\ lastEffect' = "request"
    /\ RaiseUnexpected("TypeError", commit_dates \o ParsePage(BeforeRaise(Body(page))))
    /\ UNCHANGED <<inputVars, callVars, cliVars, logVars, tableVars, fetchVars, pageSleeps, rateSleeps>>

\* status 200 and a body that parses but is no list of objects (a number,
\* null, an object such as {"message": ...}): len(data) or commit["commit"]
\* raises TypeError
RespondNotAList ==
    /\ pc = "request"
    /\ data' = "not_a_list"
    /\ Requested(200)
    /\ lastEffect' = "request"
    /\ RaiseUnexpected("TypeError", commit_dates)
    /\ UNCHANGED <<inputVars, callVars, cliVars, logVars, tableVars, fetchVars, pageSleeps, rateSleeps>>

(***************************************************************************)
(* fetch_weekly_commits                                                    *)
(***************************************************************************)
(***************************************************************************)
(* utils.py: setup_logging                                                 *)
(***************************************************************************)
LowerLetters == <<"a", "b", "c", "d", "e", "f", "g", "i", "m", "n", "o", "r", "s", "t", "u", "w">>
UpperLetters == <<"A", "B", "C", "D", "E", "F", "G", "I", "M", "N", "O", "R", "S", "T", "U", "W">>

\* str.upper
Upper(s) ==
    [k \in DOMAIN s |->
        IF \E j \in DOMAIN LowerLetters : LowerLetters[j] = s[k]
        THEN UpperLetters[CHOOSE j \in DOMAIN LowerLetters : LowerLetters[j] = s[k]]
        ELSE s[k]]

\* the attributes of the module logging with an upper-case name and an
\* integer value
IntAttrs ==
    { <<<<"D", "E", "B", "U", "G">>, 10>>, <<<<"I", "N", "F", "O">>, 20>>, <<<<"W", "A", "R", "N", "I", "N", "G">>, 30>>, <<<<"W", "A", "R", "N">>, 30>>,
      <<<<"E", "R", "R", "O", "R">>, 40>>, <<<<"C", "R", "I", "T", "I", "C", "A", "L">>, 50>>, <<<<"F", "A", "T", "A", "L">>, 50>>, <<<<"N", "O", "T", "S", "E", "T">>, 0>> }

\* the attribute of the module logging with an upper-case name and a string
\* value (the default format of basicConfig)
BASIC_FORMAT == <<"B", "A", "S", "I", "C", "_", "F", "O", "R", "M", "A", "T">>

\* getattr(logging, name, logging.INFO)
getattr_logging(name) ==
    IF \E a \in IntAttrs : a[1] = name
    THEN [isint |-> TRUE, val |-> (CHOOSE a \in IntAttrs : a[1] = name)[2]]
    ELSE IF name = BASIC_FORMAT THEN [isint |-> FALSE, val |-> 0]
    ELSE [isint |-> TRUE, val |-> 20]

\* setup_logging(name): a handler is added when the logger has none; then
\* logger.setLevel, which raises ValueError for a string that names no level
setup_logging(name) ==
    /\ handlers' = IF handlers = 0 THEN 1 ELSE handlers
    /\ log_calls' = Append(log_calls, name)
    /\ LET v == getattr_logging(Upper(name))
       IN  IF v.isint
           THEN level' = v.val /\ log_error' = "none"
           ELSE level' = level /\ log_error' = "ValueError"

\* run: logger = setup_logging("INFO") (run is called without verbose)
RunSetsUpLogging ==
    IF mode = "cli" THEN setup_logging(<<"I", "N", "F", "O">>) ELSE UNCHANGED logVars

\* the level names setup_logging is called with
LevelNames ==
    { <<"D", "E", "B", "U", "G">>, <<"d", "e", "b", "u", "g">>, <<"W", "a", "r", "n", "i", "n", "g">>, <<"e", "r", "r", "o", "r">>,
      <<"n", "o", "t", "s", "e", "t">>, <<"b", "o", "g", "u", "s">>, <<"b", "a", "s", "i", "c", "_", "f", "o", "r", "m", "a", "t">> }

\* a caller of the library calls setup_logging
CallSetupLogging ==
    /\ Len(log_calls) < MaxLogCalls
    /\ \E n \in LevelNames : setup_logging(n)
    /\ UNCHANGED <<inputVars, callVars, cliVars, tableVars, pc, error, error_status, i, outcome,
                   resultVars, fetchVars, effectVars>>

\* the entry points that call fetch_weekly_commits
AggregatorModes == {"weekly", "cli"}

\* validate_date returns for --start and for --end (when given)
DatesParse == argv.start # "bad" /\ argv.end # "bad"

\* run: validate_date raises ValidationError, which run logs; sys.exit(1)
RunBadDate ==
    /\ pc = "call"
    /\ mode = "cli"
    /\ ~ DatesParse
    /\ RunSetsUpLogging
    /\ error' = "ValidationError"
    /\ exit_code' = 1
    /\ pc' = "exited"
    /\ UNCHANGED <<inputVars, callVars, printed, tableVars, error_status, i, outcome,
                   resultVars, fetchVars, effectVars>>

\* a mutant of RunExitsOnError: the exception is logged and run returns
RunExitsOnError_ExitZero ==
    /\ pc = "raised"
    /\ mode = "cli"
    /\ exit_code' = 0
    /\ pc' = "exited"
    /\ UNCHANGED <<inputVars, callVars, logVars, printed, tableVars, error, error_status, i, outcome,
                   resultVars, fetchVars, effectVars>>

\* run: except GHWeeklyError / except Exception; sys.exit(1)
RunExitsOnError ==
    /\ pc = "raised"
    /\ mode = "cli"
    /\ exit_code' = 1
    /\ pc' = "exited"
    /\ UNCHANGED <<inputVars, callVars, logVars, printed, tableVars, error, error_status, i, outcome,
                   resultVars, fetchVars, effectVars>>

\* run: print(df); without --plot run returns and the process exits with 0
RunPrints ==
    /\ pc = "returned"
    /\ mode = "cli"
    /\ printed' = TRUE
    /\ IF argv.plot
       THEN pc' = "plot" /\ exit_code' = exit_code
       ELSE pc' = "exited" /\ exit_code' = 0
    /\ UNCHANGED <<inputVars, callVars, logVars, tableVars, error, error_status, i, outcome,
                   resultVars, fetchVars, effectVars>>

\* run: create_weekly_commits_plot returns; run returns
RunPlotSaved ==
    /\ pc = "plot"
    /\ exit_code' = 0
    /\ pc' = "exited"
    /\ UNCHANGED <<inputVars, callVars, logVars, printed, tableVars, error, error_status, i, outcome,
                   resultVars, fetchVars, effectVars>>

\* run: matplotlib raises (the file cannot be written, say): except
\* Exception; sys.exit(1)
RunPlotRaises ==
    /\ pc = "plot"
    /\ error' = "Exception"
    /\ exit_code' = 1
    /\ pc' = "exited"
    /\ UNCHANGED <<inputVars, callVars, logVars, printed, tableVars, error_status, i, outcome,
                   resultVars, fetchVars, effectVars>>

\* one of the three checks raises ValidationError
ValidationFails ==
    /\ pc = "call"
    /\ mode \in AggregatorModes
    /\ DatesParse
    /\ ~ InputsValid(username, repos, start, end)
    /\ pc' = "raised"
    /\ error' = "ValidationError"
    /\ UNCHANGED error_status
    /\ RunSetsUpLogging
    /\ UNCHANGED <<inputVars, callVars, cliVars, tableVars, i, outcome, resultVars, fetchVars, effectVars>>

\* the checks pass: the weekly grid and the table of zeros
BuildTable ==
    /\ pc = "call"
    /\ mode \in AggregatorModes
    /\ DatesParse
    /\ InputsValid(username, repos, start, end)
    /\ weeks' = WeeklyGrid(start, end)
    /\ columns' = [k \in DOMAIN repos |-> get_repo_short_name(repos[k])]
    /\ df' = InitialTable(weeks', columns')
    /\ i' = 1
    /\ pc' = "loop"
    /\ RunSetsUpLogging
    /\ UNCHANGED <<inputVars, callVars, cliVars, error, error_status, outcome, resultVars,
                   fetchVars, effectVars>>

\* for full_repo in repos: the call of fetch_commits_for_repo
NextRepo ==
    /\ pc = "loop"
    /\ i <= Len(repos)
    /\ BeginFetch
    /\ UNCHANGED <<inputVars, callVars, cliVars, logVars, tableVars, error, error_status, i, resultVars, nreq, answers,
                   lastEffect>>

\* the fetch returned: bucket its dates into the column of the repository
Aggregate ==
    /\ pc = "fetched"
    /\ IF fetched[i] # <<>>
       THEN df' = SetColumn(df, columns, get_repo_short_name(repos[i]),
                            reindex(resample_sum(fetched[i]), weeks))
       ELSE df' = df
    /\ i' = i + 1
    /\ pc' = "loop"
    /\ UNCHANGED <<inputVars, callVars, cliVars, logVars, weeks, columns, error, error_status, outcome, resultVars, fetchVars,
                   effectVars>>

\* the loop is over: return df
ReturnTable ==
    /\ pc = "loop"
    /\ i > Len(repos)
    /\ pc' = "returned"
    /\ UNCHANGED <<inputVars, callVars, cliVars, logVars, tableVars, error, error_status, i, outcome, resultVars, fetchVars,
                   effectVars>>

\* a direct call of fetch_commits_for_repo
DirectCall ==
    /\ pc = "call"
    /\ mode = "direct"
    /\ BeginFetch
    /\ UNCHANGED <<inputVars, callVars, cliVars, logVars, tableVars, error, error_status, i, resultVars, nreq, answers,
                   lastEffect>>

\* the caller makes the same call again: the program keeps what it holds; the
\* counters of the observer start again and no response has been received
CallAgain ==
    /\ mode = "weekly"
    /\ Traced
    /\ run = 1
    /\ pc \in {"returned", "raised"}
    /\ run' = 2
    /\ first_call' = Ended(pc, error, weeks, columns, df)
    /\ pc' = "call"
    /\ error' = "none"
    /\ outcome' = [k \in DOMAIN repos |-> "PENDING"]
    /\ fetched' = [k \in DOMAIN repos |-> <<>>]
    /\ dropped' = [k \in DOMAIN repos |-> <<>>]
    /\ nreq' = 0
    /\ lastEffect' = "none"
    /\ status' = 0
    /\ data' = "none"
    /\ params' = NoParams
    /\ UNCHANGED <<inputVars, cliVars, logVars, tableVars, error_status, i, fetchVars, pageReqs,
                   pageSleeps,
                   rateSleeps, pagesAsked, answers>>

Next ==
    \/ ValidationFails
    \/ BuildTable
    \/ NextRepo
    \/ DirectCall
    \/ TransportFailureRetry
    \/ TransportFailureRaise
    \/ RespondBenignStatus
    \/ RespondHardStatus
    \/ RespondUnparseable
    \/ RespondEmptyPage
    \/ RespondPage
    \/ RespondNullField
    \/ RespondNotAList
    \/ Aggregate
    \/ ReturnTable
    \/ CallAgain
    \/ RunBadDate
    \/ RunExitsOnError
    \/ RunPrints
    \/ RunPlotSaved
    \/ RunPlotRaises

Spec == Init /\ [][Next]_vars

\* calls of setup_logging alone, from the state at a call of the entry point
InitLogging == Start(ScenarioA)
NextLogging == CallSetupLogging
SpecLogging == InitLogging /\ [][NextLogging]_vars

(***************************************************************************)
(* Properties                                                              *)
(***************************************************************************)
HardFailures == {"APIError", "NetworkError"}
Terminal == {"SUCCEEDED", "FAILED_BENIGN"} \cup HardFailures
AllZero(col) == \A k \in DOMAIN col : col[k] = 0
\* the table exists: the checks passed and the grid was built
TableBuilt == mode = "weekly" /\ pc \in {"loop", "request", "fetched", "returned"}
\* no other repository of the list has the short name of the one at position k
UniqueName(k) == \A j \in DOMAIN columns : j # k => columns[j] # columns[k]
\* the number of dates T with w <= T < w + 7 days
CountIn(dates, w) == Cardinality({k \in DOMAIN dates : w <= dates[k] /\ dates[k] < w + Week})

\* the part of a reference after its last separator
NameSegment(r) ==
    LET k == Max({j \in DOMAIN r : r[j] = "/"}) IN SubSeq(r, k + 1, Len(r))

\* the shape of the table: a column per repository, named by its short name in
\* input order, a row per grid entry, every cell a natural number
ShapeOk ==
    /\ Len(df) = Len(repos)
    /\ Len(columns) = Len(repos)
    /\ \A c \in DOMAIN repos :
          /\ columns[c] = NameSegment(repos[c])
          /\ Len(df[c]) = Len(weeks)
          /\ \A k \in DOMAIN weeks : df[c][k] \in Nat

\* a step leaves the grid, the column names and the shape of the table alone
ShapeKept ==
    /\ weeks' = weeks
    /\ columns' = columns
    /\ Len(df') = Len(df)
    /\ \A c \in DOMAIN df : Len(df'[c]) = Len(df[c])

\* C1: once the table is built, before the first request, it has one row per
\* grid entry and one column per input repository, named by its short name in
\* input order, every cell is a natural number, and no later step, whatever
\* the outcome of a fetch, changes the grid, the names or the shape.
C1_ShapeFixed == [](TableBuilt => ShapeOk) /\ [][TableBuilt => ShapeKept]_vars

\* C1 witness: a table returned after a failed fetch and a fetch with commits
C1_Witness ==
    /\ pc = "returned" /\ mode = "weekly" /\ Len(repos) = 2
    /\ outcome[1] = "NetworkError" /\ outcome[2] = "SUCCEEDED"
    /\ Len(weeks) = 3 /\ ~ AllZero(df[2])

\* C2 as stated: the column of a repository whose fetch raised is all zero in
\* the returned table.
C2_FailedColumnZero ==
    (mode = "weekly" /\ pc = "returned") =>
        \A k \in DOMAIN repos : outcome[k] \in HardFailures => AllZero(df[k])

\* C2 amended: with valid inputs fetch_weekly_commits never raises; in the
\* returned table the column of a repository whose fetch raised is all zero
\* when no other repository shares its short name; every repository has been
\* fetched, and a repository with a short name of its own whose fetch returned
\* dates holds their weekly counts.
C2_FailureIsolated ==
    /\ mode = "weekly" => error \notin HardFailures
    /\ (mode = "weekly" /\ pc = "returned") =>
          \A k \in DOMAIN repos :
             /\ outcome[k] \in Terminal
             /\ (outcome[k] \in HardFailures /\ UniqueName(k)) => AllZero(df[k])
             /\ (outcome[k] \notin HardFailures /\ UniqueName(k) /\ fetched[k] # <<>>) =>
                    df[k] = reindex(resample_sum(fetched[k]), weeks)

\* C2 witness: the first repository failed after a page of commits, the second
\* was fetched and counted
C2_Witness ==
    /\ pc = "returned" /\ mode = "weekly" /\ Len(repos) = 2
    /\ outcome[1] = "APIError" /\ dropped[1] # <<>> /\ AllZero(df[1])
    /\ outcome[2] = "SUCCEEDED" /\ ~ AllZero(df[2])

\* the inputs C3 names: an empty username, end < start, a malformed reference
C3_BadInput ==
    \/ username = <<>>
    \/ end < start
    \/ \E k \in DOMAIN repos : repos[k] \in {RepoDoubleSep, RepoNoSep}

\* C3: with such an input fetch_weekly_commits does nothing but raise
\* ValidationError, and no request has been issued.
C3_FailFast ==
    (mode = "weekly" /\ C3_BadInput) =>
        /\ pc \in {"call", "raised"}
        /\ pc = "raised" => error = "ValidationError"
        /\ nreq = 0
        /\ \A k \in DOMAIN repos : outcome[k] = "PENDING"

\* C3 witness: ValidationError for a malformed reference after a well-formed one
C3_Witness ==
    /\ pc = "raised" /\ error = "ValidationError" /\ nreq = 0
    /\ username = User /\ end >= start
    /\ repos = <<RepoAX, RepoDoubleSep>>

\* the Monday 00:00 on or before t
MondayOnOrBefore(t) == CHOOSE m \in 0 .. t : m % Week = 0 /\ m <= t /\ t < m + Week
\* consecutive grid entries are exactly 7 days apart
StepsOfAWeek == \A k \in 1 .. (Len(weeks) - 1) : weeks[k + 1] = weeks[k] + Week

\* C4 as stated: the grid runs from the Monday on or before start to the
\* Monday on or before end, in steps of 7 days.
C4_GridFromMondayBefore ==
    TableBuilt =>
        /\ Len(weeks) >= 1
        /\ weeks[1] = MondayOnOrBefore(start)
        /\ weeks[Len(weeks)] = MondayOnOrBefore(end)
        /\ StepsOfAWeek

\* C5 as stated: in the returned table every cell of a repository whose fetch
\* succeeded (and whose short name is its own) is the number of returned
\* timestamps T with w <= T < w + 7 days, w the grid entry of the row.
C5_CellCounts ==
    (mode = "weekly" /\ pc = "returned") =>
        \A c \in DOMAIN repos :
            (outcome[c] = "SUCCEEDED" /\ UniqueName(c)) =>
                \A k \in DOMAIN weeks : df[c][k] = CountIn(fetched[c], weeks[k])

\* the inputs of Scenario A
InScenarioA ==
    Input(mode, username, repos, start, end, authorized, max_retries, upstream) = ScenarioA

\* C6 as stated: in Scenario A the first grid week is Monday 2024-12-30 (tick
\* 0) with count 2, the week of 2025-01-06 has count 1, later weeks have 0.
C6_ScenarioA ==
    (InScenarioA /\ pc = "returned" /\ outcome[1] = "SUCCEEDED") =>
        /\ Len(weeks) >= 2
        /\ weeks[1] = 0 /\ df[1][1] = 2
        /\ weeks[2] = Day(7) /\ df[1][2] = 1
        /\ \A k \in 3 .. Len(weeks) : df[1][k] = 0

\* C7 as stated: the grid steps by exactly 7 days and its length is
\* floor((Monday on or before end - Monday on or before start) / 7 days) + 1.
C7_GridLength ==
    TableBuilt =>
        /\ StepsOfAWeek
        /\ Len(weeks) = ((MondayOnOrBefore(end) - MondayOnOrBefore(start)) \div Week) + 1

\* C8: with a username and well-formed references, a window with end = start
\* passes the checks and its grid has exactly one entry; a window with
\* end < start raises ValidationError.
C8_DegenerateWindow ==
    (mode = "weekly" /\ pc # "call" /\ ~ UsernameEmpty(username)
        /\ \A k \in DOMAIN repos : repos[k] \in {RepoAX, RepoAY, RepoBX}) =>
        /\ end = start => (error # "ValidationError" /\ Len(weeks) = 1)
        /\ end < start => (pc = "raised" /\ error = "ValidationError")

\* C8 witness: a table returned for a window with end = start, not a Monday
C8_Witness ==
    /\ mode = "weekly" /\ pc = "returned" /\ end = start /\ weekday(start) = 3
    /\ Len(weeks) = 1

\* the fetch of the repository at position k raised NetworkError in the last step
JustRaisedNetworkError ==
    \/ mode = "direct" /\ pc = "raised" /\ error = "NetworkError"
    \/ mode = "weekly" /\ pc = "loop" /\ i > 1 /\ outcome[i - 1] = "NetworkError"

\* C9: while a page is being requested every failed attempt has been followed
\* by one retry delay; NetworkError is raised after exactly max_retries + 1
\* requests and max_retries delays for the page, the last effect being the
\* failed request, not a delay.
C9_RetryBudget ==
    /\ pc = "request" =>
          /\ pageReqs = attempt /\ pageSleeps = attempt /\ attempt <= max_retries
          /\ attempt > 0 => lastEffect = "retry_sleep"
    /\ JustRaisedNetworkError =>
          /\ pageReqs = max_retries + 1
          /\ pageSleeps = max_retries
          /\ lastEffect = "request"

\* C9 witness: NetworkError on the second page after two retries
C9_Witness ==
    /\ mode = "direct" /\ pc = "raised" /\ error = "NetworkError"
    /\ max_retries = 2 /\ page = 2 /\ pageReqs = 3 /\ pageSleeps = 2

\* the dates of the well-formed records of the first n pages of a history
RECURSIVE DatesOfPages(_, _)
DatesOfPages(hist, n) ==
    IF n = 0 THEN <<>> ELSE DatesOfPages(hist, n - 1) \o ParsePage(hist[n])

\* C10: a response with status 403 or 404 ends the fetch at once: no further
\* request and no delay follows, nothing is raised, and the fetch returns the
\* timestamps of the pages read before it.
C10_BenignStatusStops ==
    (status \in {403, 404}) =>
        /\ pc # "request" /\ pc # "raised" /\ error \notin HardFailures
        /\ lastEffect = "request"
        /\ (pc \in {"fetched", "returned"} /\ i \in DOMAIN repos) =>
              /\ outcome[i] = "FAILED_BENIGN"
              /\ fetched[i] = DatesOfPages(upstream[i], page - 1)

\* C10 witness: status 403 on the second page, the first page's dates returned
C10_Witness ==
    /\ mode = "direct" /\ pc = "returned" /\ status = 403 /\ page = 2
    /\ fetched[1] # <<>>

\* C11: a response whose status is none of 200, 403, 404 ends the fetch at
\* once with APIError carrying that status: no request and no delay follows
\* it, nothing is returned for the repository, and the page saw one request
\* more than it saw transport failures.
C11_HardStatusRaises ==
    (status \notin {0, 200, 403, 404}) =>
        /\ pc # "request" /\ pc # "fetched"
        /\ lastEffect = "request"
        /\ pageReqs = attempt + 1 /\ pageSleeps = attempt
        /\ mode = "direct" =>
              /\ pc = "raised" /\ error = "APIError" /\ error_status = status
              /\ outcome[1] = "APIError" /\ fetched[1] = <<>>
        /\ mode = "weekly" =>
              /\ i > 1 /\ outcome[i - 1] = "APIError" /\ fetched[i - 1] = <<>>

\* C11 witness: APIError with status 401 on the second page, after one
\* transport failure of that page
C11_Witness ==
    /\ mode = "direct" /\ pc = "raised" /\ error = "APIError" /\ error_status = 401
    /\ page = 2 /\ attempt = 1 /\ dropped[1] # <<>>

\* the aggregator has just dealt with a repository whose fetch ended on a
\* response with status 403 or 404 (it is the one at position i - 1)
AfterBenignStatus ==
    mode = "weekly" /\ pc \in {"loop", "returned"} /\ i > 1 /\ status \in {403, 404}

ReturnedOk == mode = "direct" /\ pc = "returned" /\ outcome[1] = "SUCCEEDED"

\* C13: no page above 100 is requested; a fetch that returns before the
\* ceiling without a benign stop returns on the first empty page, which is the
\* last page it requested; a fetch that reaches the ceiling has requested
\* exactly 100 pages and returns the timestamps of all of them, raising nothing.
C13_PaginationStops ==
    /\ page <= 100 + 1 /\ pagesAsked <= 100
    /\ pc = "request" => page <= 100
    /\ (ReturnedOk /\ page <= 100) =>
          /\ Body(page) = <<>> /\ pagesAsked = page
          /\ \A q \in 1 .. (page - 1) : Body(q) # <<>>
    /\ page = 100 + 1 =>
          /\ ReturnedOk /\ error = "none" /\ pagesAsked = 100
          /\ Len(fetched[1]) = 100

\* C13 witness: the ceiling is reached, with a transport failure on the way
C13_Witness == ReturnedOk /\ page = 100 + 1 /\ nreq > 100 /\ Len(fetched[1]) = 100

\* C13 witness of the other stop: the empty third page ends the fetch
C13_WitnessEmptyPage == ReturnedOk /\ page = 3 /\ Len(fetched[1]) = 3

IsWellFormed(r) == r.kind = "ok"
\* the dates of the well-formed records of a page, in the order of the page
WellFormedDates(body) ==
    LET good == SelectSeq(body, IsWellFormed) IN [k \in DOMAIN good |-> good[k].date]
\* the same for the first n pages of a history
RECURSIVE WellFormedDatesUpTo(_, _)
WellFormedDatesUpTo(hist, n) ==
    IF n = 0 THEN <<>> ELSE WellFormedDatesUpTo(hist, n - 1) \o WellFormedDates(hist[n])
\* a record with a missing key or an unparseable date is among the first n pages
MalformedWithin(hist, n) ==
    \E q \in 1 .. n : \E k \in DOMAIN hist[q] : hist[q][k].kind \in {"nokey", "baddate"}

\* C14: records with a missing key or an unparseable date add nothing and stop
\* nothing: before each page request commit_dates holds the dates of all the
\* well-formed records of the pages read so far, and a fetch that ends on the
\* empty page returns the dates of all well-formed records of all pages.
C14_MalformedSkipped ==
    /\ (pc = "request" /\ i \in DOMAIN repos) =>
          commit_dates = WellFormedDatesUpTo(upstream[i], page - 1)
    /\ (ReturnedOk /\ page <= 100) =>
          fetched[1] = WellFormedDatesUpTo(upstream[1], Len(upstream[1]))

\* C14 witness: malformed records on the first two pages, every commit returned
C14_Witness ==
    /\ ReturnedOk /\ upstream[1] = HistBadThenGood /\ page = 4
    /\ MalformedWithin(upstream[1], 2)
    /\ fetched[1] = <<Week + 1, 2 * Week>>

\* C16: a page that answers 200 with a body that is no JSON ends the fetch at
\* once: it is the last request, no delay follows, nothing is raised, and the
\* fetch returns the timestamps of the pages read before it.
C16_UnparseableBodyStops ==
    (mode = "direct" /\ data = "unparseable") =>
        /\ pc = "returned" /\ error = "none"
        /\ status = 200 /\ outcome[1] = "FAILED_BENIGN"
        /\ lastEffect = "request" /\ pagesAsked = page
        /\ fetched[1] = WellFormedDatesUpTo(upstream[1], page - 1)

C16_Witness ==
    /\ mode = "direct" /\ data = "unparseable" /\ pc = "returned"
    /\ upstream[1] = HistTwoPages /\ page = 2
    /\ fetched[1] # <<>>

\* C17 as stated: in a fetch without credential, however the fetch ends, the
\* number of rate-limit delays is the number of distinct pages requested minus
\* one, and no delay follows the last page request.
C17_DelaysBetweenPages ==
    (mode = "direct" /\ ~ authorized /\ pc \in {"returned", "raised"}) =>
        (rateSleeps = pagesAsked - 1 /\ lastEffect = "request")

\* C18: a fetch whose headers carry an Authorization credential takes no
\* rate-limit delay, however many pages it reads; the only delay it can take
\* is the retry delay, which follows a transport failure of the current page.
C18_NoDelayWithCredential ==
    authorized =>
        /\ rateSleeps = 0
        /\ lastEffect \in {"none", "request", "retry_sleep"}
        /\ lastEffect = "retry_sleep" => (status = 0 /\ attempt >= 1 /\ pageSleeps = attempt)

C18_Witness ==
    /\ authorized /\ ReturnedOk
    /\ upstream[1] = HistTwoPages /\ pagesAsked = 3 /\ nreq = 3
    /\ rateSleeps = 0

C18_WitnessCeiling ==
    authorized /\ ReturnedOk /\ pagesAsked = 100 /\ rateSleeps = 0

\* the first page of a history that has no record
FirstEmpty(hist) == Min({p \in 1 .. Len(hist) + 1 : p > Len(hist) \/ hist[p] = <<>>})

\* C19: a retry asks for the same page again, with the timestamps gathered so
\* far untouched; a fetch that returns on an empty page after transport
\* failures has asked for every page up to that one and returns the timestamps
\* of all of them, each once, as a run without failure does.
C19_RetrySamePage ==
    /\ (pc = "request" /\ attempt > 0 /\ i \in DOMAIN repos) =>
          /\ pagesAsked = page /\ pageReqs = attempt
          /\ commit_dates = WellFormedDatesUpTo(upstream[i], page - 1)
    /\ (ReturnedOk /\ nreq > pagesAsked /\ page <= 100) =>
          /\ pagesAsked = FirstEmpty(upstream[1]) /\ page = pagesAsked
          /\ fetched[1] = WellFormedDatesUpTo(upstream[1], FirstEmpty(upstream[1]) - 1)

C19_Witness ==
    /\ ReturnedOk /\ upstream[1] = HistTwoPages
    /\ nreq = pagesAsked + 2 /\ pagesAsked = 3
    /\ Len(fetched[1]) = Len(WellFormedDatesUpTo(HistTwoPages, 2))
    /\ fetched[1] # <<>>

\* C20 as stated, for a run that has ended: every repository of the list has
\* reached one of the terminal states SUCCEEDED, FAILED_BENIGN, FAILED_HARD
\* (APIError or NetworkError), whatever the outcomes of the others.
C20_EveryRepoTerminal ==
    (mode = "weekly" /\ InputsValid(username, repos, start, end)
        /\ pc \in {"returned", "raised"}) =>
        \A k \in DOMAIN repos :
            outcome[k] \in {"SUCCEEDED", "FAILED_BENIGN", "APIError", "NetworkError"}

\* C15 as stated: once the checks have passed, no data the upstream sends
\* makes fetch_weekly_commits raise.
C15_DataErrorsNeverSurface ==
    (mode = "weekly" /\ InputsValid(username, repos, start, end)) => pc # "raised"

\* the weekly data of the repository at position k: the counts of the dates
\* its fetch returned, a column of zeros when it returned none or raised
DataOf(k) ==
    IF outcome[k] \notin HardFailures /\ fetched[k] # <<>>
    THEN reindex(resample_sum(fetched[k]), weeks)
    ELSE [w \in DOMAIN weeks |-> 0]

\* position k is the last of the list with its short name
LastOfName(k) == \A j \in DOMAIN columns : j > k => columns[j] # columns[k]

\* C21 as stated: in the returned table the columns are in input order, and
\* the column of a repository that shares its short name with a later,
\* distinct one holds the data of the later one, whether the later fetch
\* returned commits, returned none, or failed.
C21_LaterOverwrites ==
    (mode = "weekly" /\ pc = "returned") =>
        /\ \A c \in DOMAIN repos : columns[c] = NameSegment(repos[c])
        /\ \A j \in DOMAIN repos, k \in DOMAIN repos :
              (j < k /\ repos[j] # repos[k] /\ columns[j] = columns[k] /\ LastOfName(k)) =>
                  df[j] = DataOf(k)

\* every record of the history carries its stable identifier
AllHaveSha(hist) ==
    \A p \in DOMAIN hist : \A k \in DOMAIN hist[p] : "sha" \in DOMAIN hist[p][k]

\* the identifiers of the commits of the history dated in the week starting at w
ShasIn(hist, w) ==
    UNION { { hist[p][k].sha :
                k \in { j \in DOMAIN hist[p] :
                           /\ hist[p][j].kind = "ok"
                           /\ w <= hist[p][j].date
                           /\ hist[p][j].date < w + Week } } :
            p \in DOMAIN hist }

SecondEnded == run = 2 /\ pc \in {"returned", "raised"}

\* C23: a second call of fetch_weekly_commits with the same arguments, against
\* an upstream that answers every request as it did the first time, issues the
\* same requests and ends as the first call did, with the same grid, the same
\* columns and the same cells: nothing the first call left behind is read.
C23_Idempotent ==
    SecondEnded =>
        /\ nreq = Len(answers)
        /\ Ended(pc, error, weeks, columns, df) = first_call

C23_Witness ==
    /\ SecondEnded /\ pc = "returned" /\ Len(repos) = 2
    /\ outcome[1] = "NetworkError" /\ outcome[2] = "SUCCEEDED"
    /\ ~ AllZero(df[2]) /\ df = first_call.df
    /\ nreq = Len(answers) /\ nreq > 4

\* the run of the command line has ended
Exited == mode = "cli" /\ pc = "exited"

\* the fetch of some repository of the run raised APIError or NetworkError
SomeFetchFailed == \E k \in DOMAIN repos : outcome[k] \in HardFailures

\* the arguments of the run that validate_date or fetch_weekly_commits rejects
CliBadInput ==
    \/ argv.start = "bad" \/ argv.end = "bad"
    \/ UsernameEmpty(username)
    \/ end < start
    \/ \E k \in DOMAIN repos : repos[k] = RepoNoSep

\* C24 as stated: the run ends with exit code 1 exactly when a validation
\* error, an API error, a network error or an unexpected exception occurred,
\* and with exit code 0 otherwise.
C24_ExitOneOnAnyError ==
    Exited => (exit_code = 1 <=> (error # "none" \/ SomeFetchFailed))

\* C24 amended: the run ends with exit code 1 exactly when an exception
\* reached run, which is a ValidationError for every rejected argument and an
\* unexpected exception otherwise, and with exit code 0 after printing the
\* table; the APIError or NetworkError of a repository's fetch never reaches
\* run and leaves the exit code alone.
C24_ExitCode ==
    /\ mode = "cli" => (exit_code = -1 <=> pc # "exited")
    /\ Exited =>
          /\ exit_code = 1 <=> error # "none"
          /\ error \in {"none", "ValidationError", "TypeError", "Exception"}
          /\ CliBadInput <=> error = "ValidationError"
          /\ CliBadInput => (nreq = 0 /\ ~ printed)
          /\ exit_code = 0 => printed

C24_Witness ==
    /\ Exited /\ exit_code = 0 /\ printed /\ argv.plot
    /\ outcome = <<"APIError", "NetworkError">>

C24_WitnessBadDate ==
    Exited /\ exit_code = 1 /\ argv.start = "bad" /\ error = "ValidationError"

C24_WitnessUnexpected ==
    Exited /\ exit_code = 1 /\ error = "TypeError" /\ ~ printed

\* C25 as stated: a run in which fetches fail with an API error or a network
\* error, and nothing else goes wrong, prints the table with a zero column for
\* every failed repository and exits with 0.
C25_FailedColumnsZero ==
    (Exited /\ SomeFetchFailed /\ error = "none") =>
        /\ printed /\ exit_code = 0
        /\ \A k \in DOMAIN repos : outcome[k] \in HardFailures => AllZero(df[k])

\* C25 amended: a run in which fetches fail with an API error or a network
\* error exits non-zero only for an unexpected exception; otherwise it prints
\* the table and exits with 0, and the column of a failed repository is zero
\* when no other repository of the list shares its short name.
C25_FailuresStillPrint ==
    (Exited /\ SomeFetchFailed) =>
        /\ error \in {"none", "TypeError", "Exception"}
        /\ exit_code = 1 <=> error \in {"TypeError", "Exception"}
        /\ error = "none" =>
              /\ printed
              /\ \A k \in DOMAIN repos :
                    (outcome[k] \in HardFailures /\ UniqueName(k)) => AllZero(df[k])

C25_Witness ==
    /\ Exited /\ exit_code = 0 /\ printed /\ error = "none"
    /\ repos = <<RepoAX, RepoAY>>
    /\ outcome = <<"NetworkError", "SUCCEEDED">>
    /\ AllZero(df[1]) /\ ~ AllZero(df[2])

C25_WitnessAllFail ==
    /\ Exited /\ exit_code = 0 /\ printed
    /\ \A k \in DOMAIN repos : outcome[k] \in HardFailures
    /\ Len(repos) = 2

\* the instant a well-formed record denotes, in UTC
UtcInstant(r) == IF "utc_offset" \in DOMAIN r THEN r.date - r.utc_offset ELSE r.date

\* the UTC instants of the well-formed records of a page, in the order of the page
UtcInstants(body) ==
    LET good == SelectSeq(body, IsWellFormed) IN [k \in DOMAIN good |-> UtcInstant(good[k])]

\* a record of the history carries a UTC offset other than zero
HasOffset(hist) ==
    \E p \in DOMAIN hist : \E k \in DOMAIN hist[p] :
        "utc_offset" \in DOMAIN hist[p][k] /\ hist[p][k].utc_offset # 0

\* C26 as stated: each returned timestamp is the UTC instant of the record's
\* author date, so two records denoting the same instant yield the same
\* timestamp and fall in the same week.
C26_NormalizedToUtc ==
    (ReturnedOk /\ Len(upstream[1]) = 1 /\ HasOffset(upstream[1])) =>
        /\ fetched[1] = UtcInstants(upstream[1][1])
        /\ \A j \in DOMAIN fetched[1], k \in DOMAIN fetched[1] :
              UtcInstants(upstream[1][1])[j] = UtcInstants(upstream[1][1])[k] =>
                  WeekFloor(fetched[1][j]) = WeekFloor(fetched[1][k])

\* C27 as stated: every entry of the weekly grid is a Monday at 00:00, the
\* start of a week bucket, also for a start with a time of day.
C27_GridAtMidnight ==
    TableBuilt => \A k \in DOMAIN weeks : weeks[k] = WeekFloor(weeks[k])

\* a string with exactly one separator, both sides non-empty and neither side
\* beginning or ending with whitespace
WellFormedRef(r) ==
    /\ r # None
    /\ \E k \in DOMAIN r :
          /\ r[k] = "/"
          /\ \A j \in DOMAIN r : r[j] = "/" => j = k
          /\ 1 < k /\ k < Len(r)
          /\ r[1] # " " /\ r[k - 1] # " "
          /\ r[k + 1] # " " /\ r[Len(r)] # " "

\* C28: with a username and a window that pass, the call raises
\* ValidationError, before any request, exactly when some entry of the list is
\* not a string with exactly one separator and two non-empty, unpadded sides;
\* the empty list is accepted.
C28_RepoFormat ==
    (mode = "weekly" /\ ~ UsernameEmpty(username) /\ end >= start /\ pc # "call") =>
        /\ (error = "ValidationError") <=> (\E k \in DOMAIN repos : ~ WellFormedRef(repos[k]))
        /\ error = "ValidationError" => (pc = "raised" /\ nreq = 0)

C28_Witness ==
    /\ mode = "weekly" /\ username = User /\ end >= start
    /\ pc = "raised" /\ error = "ValidationError"
    /\ repos = <<RepoAX, RepoPaddedName>>

C28_WitnessAccepted ==
    /\ mode = "weekly" /\ pc = "returned" /\ repos = <<RepoInnerSpace>>

\* C29: with an empty list of repositories, and a username and a window that
\* pass, fetch_weekly_commits raises nothing, issues no request, and returns a
\* table without columns.
C29_EmptyList ==
    (mode = "weekly" /\ repos = <<>> /\ ~ UsernameEmpty(username) /\ end >= start) =>
        /\ pc \in {"call", "loop", "returned"}
        /\ error = "none" /\ nreq = 0
        /\ pc # "call" => (df = <<>> /\ columns = <<>>)

C29_Witness ==
    /\ mode = "weekly" /\ repos = <<>> /\ pc = "returned"
    /\ df = <<>> /\ columns = <<>> /\ Len(weeks) = 3 /\ nreq = 0

\* the level a name stands for, whatever its case: that of the level names of
\* logging, INFO for any other name
NamedLevel(name) ==
    LET known == { a \in IntAttrs : a[1] = Upper(name) }
    IN  IF known = {} THEN 20 ELSE (CHOOSE a \in known : TRUE)[2]

\* C30 as stated: after any sequence of calls of setup_logging the logger has
\* the handlers it had after the first call (one), every call has returned the
\* logger, and its level is the one the last call named, INFO for a name that
\* is no level name.
C30_LoggerConfigured ==
    log_calls # <<>> =>
        /\ handlers = 1
        /\ log_error = "none"
        /\ level = NamedLevel(log_calls[Len(log_calls)])

\* the short names of the list are pairwise distinct
DistinctNames == \A j \in DOMAIN columns, k \in DOMAIN columns : j # k => columns[j] # columns[k]

\* C31: when the short names are pairwise distinct, no step of the processing
\* of a repository, whatever the outcome of its fetch, changes the column of
\* another repository.
C31_OwnColumnOnly ==
    [][(TableBuilt /\ TableBuilt' /\ DistinctNames) =>
          \A c \in DOMAIN df : c # i => df'[c] = df[c]]_vars

\* C31 witness: the second repository's column was written and the first one's
\* still holds its own counts
C31_Witness ==
    /\ mode = "weekly" /\ pc = "returned" /\ Len(repos) = 2 /\ DistinctNames
    /\ outcome = <<"SUCCEEDED", "SUCCEEDED">>
    /\ fetched[1] # <<>>
    /\ df[1] = reindex(resample_sum(fetched[1]), weeks) /\ ~ AllZero(df[1])
    /\ ~ AllZero(df[2]) /\ df[1] # df[2]

\* the sum of the cells of a column
RECURSIVE ColumnSum(_)
ColumnSum(col) == IF col = <<>> THEN 0 ELSE Head(col) + ColumnSum(Tail(col))

\* the number of dates T with s <= T < e
CountWithin(dates, s, e) == Cardinality({k \in DOMAIN dates : s <= dates[k] /\ dates[k] < e})

\* C32 as stated: in the returned table the column of a repository whose
\* fetch succeeded (and whose short name is its own) sums to the number of
\* returned timestamps in [start, end).
C32_NothingDropped ==
    (mode = "weekly" /\ pc = "returned") =>
        \A c \in DOMAIN repos :
            (outcome[c] = "SUCCEEDED" /\ UniqueName(c)) =>
                ColumnSum(df[c]) = CountWithin(fetched[c], start, end)

\* a request is sent in this step
RequestSent == nreq' = nreq + 1

\* C33: every request of a fetch carries the author, since = start, until =
\* end and per_page = 100 of the call; the first request asks for page 1, a
\* request that follows a failed attempt asks for the same page again, and any
\* other request asks for the next page, the one before having been answered
\* with status 200 and a non-empty list.
C33_OnlyPageChanges ==
    /\ [](params # NoParams =>
            /\ params.author = username /\ params.since = start /\ params.until = end
            /\ params.per_page = 100
            /\ params.page \in 1 .. 100)
    /\ [][RequestSent =>
            /\ params = NoParams => params'.page = 1
            /\ (params # NoParams /\ pageReqs > 0) => params'.page = params.page
            /\ (params # NoParams /\ pageReqs = 0) =>
                  /\ params'.page = params.page + 1
                  /\ data = "list" /\ Body(params.page) # <<>>]_vars

\* C33 witness: page 3 has been asked for, page 2 twice after a failed attempt
C33_Witness ==
    /\ ReturnedOk /\ upstream[1] = HistTwoPages
    /\ params = Params(3) /\ nreq = 4 /\ pagesAsked = 3

\* a request of the fetch fails with a RequestException in this step
TransportFailure == TransportFailureRetry \/ TransportFailureRaise

\* C34: the retries are counted per page: the first request of every page is
\* attempt 0, whatever failed on the pages before; the attempt number is the
\* number of consecutive failures of the current page and never exceeds
\* max_retries; and a failed request raises NetworkError exactly when it is
\* the (max_retries + 1)-th consecutive failure of its page.
C34_BudgetPerPage ==
    /\ [](pc = "request" =>
            /\ attempt = pageReqs /\ attempt <= max_retries
            /\ pageReqs = 0 => attempt = 0)
    /\ [][TransportFailure =>
            /\ pageReqs' = pageReqs + 1
            /\ (pageReqs' = max_retries + 1) <=> (outcome'[i] = "NetworkError")
            /\ (pageReqs' <= max_retries) <=> (pc' = "request" /\ page' = page)]_vars
    /\ [](JustRaisedNetworkError => pageReqs = max_retries + 1)

\* C34 witness: a fetch has returned every commit of three pages after more
\* than max_retries failed requests in all
C34_Witness ==
    /\ ReturnedOk /\ upstream[1] = HistTwoPages /\ max_retries = 1
    /\ pagesAsked = 3 /\ nreq - pagesAsked = 3
    /\ fetched[1] = DatesOfPages(HistTwoPages, Len(HistTwoPages))

\* C35: a direct call of fetch_commits_for_repo has never sent more than
\* max_pages * (max_retries + 1) requests, and when it has ended it has
\* returned a list or raised APIError or NetworkError.
C35_EndsWithinBudget ==
    mode = "direct" =>
        /\ nreq <= max_pages * (max_retries + 1)
        /\ pc = "returned" => error = "none"
        /\ pc = "raised" => error \in {"APIError", "NetworkError"}

\* the request bound alone
C35_RequestBound == mode = "direct" => nreq <= max_pages * (max_retries + 1)

\* C36: once fetch_weekly_commits has built its table for a window with
\* end >= start, the weekly grid has at least one entry.
C36_GridNotEmpty == (TableBuilt /\ end >= start) => Len(weeks) >= 1

====
